---- MODULE Spec2Model ----
(***************************************************************************)
(* Model of run_system.py: the orchestrator that starts the service group, *)
(* waits, starts the client group, monitors the children and stops them.   *)
(* The main control flow is one sequential process (pc); the children and  *)
(* the SIGINT signal are the environment.                                   *)
(***************************************************************************)
EXTENDS Integers, Sequences, FiniteSets, TLC

\* ---- bounds of the model ----
MaxServices == 2
MaxClients == 2

\* ---- node names: services are 1..MaxServices, clients follow them ----
ServiceNames == 1..MaxServices
ClientNames == (MaxServices + 1)..(MaxServices + MaxClients)
Names == ServiceNames \cup ClientNames

\* exit code a child ends with by itself; SIGTERM gives -15, SIGKILL gives -9
ExitCodes == {0}
TermCode == 0 - 15
KilledCode == 0 - 9

VARIABLES
    NODES,          \* the service group, in start order
    CLIENT_NODES,   \* the client group, in start order
    pc,             \* the line main (or the function it called) is at
    arg,            \* argument of the running start_group / stop_processes call
    i,              \* position of the running for loop
    procs,          \* start_group: the local list procs
    processes,      \* stop_processes: the parameter processes
    bound,          \* which of service_procs, client_procs exist in main's locals()
    service_procs,  \* main: service_procs
    client_procs,   \* main: client_procs
    remaining,      \* wait_for_clients: keys of the dict remaining, in order
    finished,       \* wait_for_clients: the list finished
    outcome,        \* how wait_for_clients returned
    failed,         \* the service wait_for_clients reported as exited
    exc,            \* exception travelling through main's finally block
    exitStatus,     \* exit status of the orchestrator, <<>> while it runs
    child,          \* OS state of each child process
    exitcode,       \* OS exit code of each child, <<>> while none
    returncode,     \* Popen.returncode of each handle, <<>> is None
    log,            \* calls made at the OS boundary: <<op, name>>
    firstError,     \* first terminate / kill call that raised, <<>> if none
    stopCalls,      \* stop_processes calls begun, by list
    stopDone,       \* stop_processes calls that returned, by list
    interrupts      \* phases in which a SIGINT arrived, in order

vars == <<NODES, CLIENT_NODES, pc, arg, i, procs, processes, bound,
          service_procs, client_procs, remaining, finished, outcome, failed,
          exc, exitStatus, child, exitcode, returncode, log, firstError,
          stopCalls, stopDone, interrupts>>

config == <<NODES, CLIENT_NODES>>
os == <<child, exitcode>>
stops == <<firstError, stopCalls, stopDone>>

\* ---- helpers ----
Range(s) == {s[k] : k \in 1..Len(s)}

Group(a) == IF a = "services" THEN NODES ELSE CLIENT_NODES

\* [x for x in s if x not in t], order kept
RECURSIVE Without(_, _)
Without(s, t) ==
    IF s = <<>> THEN <<>>
    ELSE IF Head(s) \in t THEN Without(Tail(s), t)
         ELSE <<Head(s)>> \o Without(Tail(s), t)

\* positions of the control flow inside the try block of main
TryPcs == {"start_node", "start_sleep", "warmup", "wait_begin", "wait_sleep",
           "poll_svc", "poll_cli"}
\* positions inside the finally block of main
FinallyPcs == {"finally", "terminate", "grace", "kill", "done"}

\* the phase of the run the control flow is in
Phase ==
    CASE pc = "init" -> 0                                  \* INIT
      [] pc \in {"start_node", "start_sleep"} /\ arg = "services" -> 1
      [] pc = "warmup" -> 2                                \* WARMUP
      [] pc \in {"start_node", "start_sleep"} /\ arg = "clients" -> 3
      [] pc \in {"wait_begin", "wait_sleep", "poll_svc", "poll_cli"} -> 4
      [] pc \in FinallyPcs \cup {"except"} -> 5            \* SHUTTING_DOWN
      [] pc = "stopped" -> 6                               \* STOPPED

Init ==
    /\ NODES \in {[k \in 1..n |-> k] : n \in 0..MaxServices}
    /\ CLIENT_NODES \in {[k \in 1..n |-> MaxServices + k] : n \in 0..MaxClients}
    /\ pc = "init"
    /\ arg = "none"
    /\ i = 1
    /\ procs = <<>>
    /\ processes = <<>>
    /\ bound = {}
    /\ service_procs = <<>>
    /\ client_procs = <<>>
    /\ remaining = <<>>
    /\ finished = <<>>
    /\ outcome = "none"
    /\ failed = <<>>
    /\ exc = "none"
    /\ exitStatus = <<>>
    /\ child = [n \in Names |-> "none"]
    /\ exitcode = [n \in Names |-> <<>>]
    /\ returncode = [n \in Names |-> <<>>]
    /\ log = <<>>
    /\ firstError = <<>>
    /\ stopCalls = <<>>
    /\ stopDone = <<>>
    /\ interrupts = <<>>

\* ---- main, lines 120-130: register the handler, enter try, call start_group(NODES)
RegisterHandler ==
    /\ pc = "init"
    /\ pc' = "start_node"
    /\ arg' = "services"
    /\ i' = 1
    /\ procs' = <<>>
    /\ UNCHANGED <<config, interrupts, processes, bound, service_procs, client_procs,
                   remaining, finished, outcome, failed, exc, exitStatus, os,
                   returncode, log, stops>>

\* the new handle is put in front of the list
StartNodePrepends ==
    /\ pc = "start_node"
    /\ i <= Len(Group(arg))
    /\ child' = [child EXCEPT ![Group(arg)[i]] = "running"]
    /\ log' = Append(log, <<"spawn", Group(arg)[i]>>)
    /\ procs' = <<Group(arg)[i]>> \o procs
    /\ pc' = "start_sleep"
    /\ UNCHANGED <<config, interrupts, arg, i, processes, bound, service_procs,
                   client_procs, remaining, finished, outcome, failed, exc,
                   exitStatus, exitcode, returncode, stops>>

\* ---- start_group, lines 62-64: start_node succeeds, the handle is appended
StartNode ==
    /\ pc = "start_node"
    /\ i <= Len(Group(arg))
    /\ LET n == Group(arg)[i] IN
        /\ child' = [child EXCEPT ![n] = "running"]
        /\ log' = Append(log, <<"spawn", n>>)
        /\ procs' = Append(procs, n)
    /\ pc' = "start_sleep"
    /\ UNCHANGED <<config, interrupts, arg, i, processes, bound, service_procs,
                   client_procs, remaining, finished, outcome, failed, exc,
                   exitStatus, exitcode, returncode, stops>>

\* a failed spawn is tried again
StartNodeFailsRetried ==
    /\ pc = "start_node"
    /\ i <= Len(Group(arg))
    /\ log' = Append(log, <<"spawn_failed", Group(arg)[i]>>)
    /\ UNCHANGED <<config, interrupts, pc, arg, i, procs, processes, bound,
                   service_procs, client_procs, remaining, finished, outcome,
                   failed, exc, exitStatus, os, returncode, stops>>

\* the error of a failed spawn is swallowed and the group start goes on
StartNodeFailsSwallowed ==
    /\ pc = "start_node"
    /\ i <= Len(Group(arg))
    /\ log' = Append(log, <<"spawn_failed", Group(arg)[i]>>)
    /\ pc' = "start_sleep"
    /\ UNCHANGED <<config, interrupts, arg, i, procs, processes, bound, service_procs,
                   client_procs, remaining, finished, outcome, failed, exc,
                   exitStatus, os, returncode, stops>>

\* ---- start_node, line 51: Popen raises OSError; it leaves start_group and
\* the try block of main (no handler matches) and the finally block runs
StartNodeFails ==
    /\ pc = "start_node"
    /\ i <= Len(Group(arg))
    /\ log' = Append(log, <<"spawn_failed", Group(arg)[i]>>)
    /\ exc' = "OSError"
    /\ pc' = "finally"
    /\ arg' = "none"
    /\ i' = 1
    /\ procs' = <<>>
    /\ UNCHANGED <<config, interrupts, processes, bound, service_procs, client_procs,
                   remaining, finished, outcome, failed, exitStatus, os,
                   returncode, stops>>

\* ---- start_group, line 65: time.sleep(0.5), then the next node
StartSleep ==
    /\ pc = "start_sleep"
    /\ i' = i + 1
    /\ pc' = "start_node"
    /\ UNCHANGED <<config, interrupts, arg, procs, processes, bound, service_procs,
                   client_procs, remaining, finished, outcome, failed, exc,
                   exitStatus, os, returncode, log, stops>>

\* ---- start_group line 66 and main line 130 / 138: return procs, bind it
StartGroupReturn ==
    /\ pc = "start_node"
    /\ i > Len(Group(arg))
    /\ IF arg = "services"
       THEN /\ service_procs' = procs
            /\ bound' = bound \cup {"service_procs"}
            /\ pc' = "warmup"
            /\ UNCHANGED client_procs
       ELSE /\ client_procs' = procs
            /\ bound' = bound \cup {"client_procs"}
            /\ pc' = "wait_begin"
            /\ UNCHANGED service_procs
    /\ arg' = "none"
    /\ i' = 1
    /\ procs' = <<>>
    /\ UNCHANGED <<config, interrupts, processes, remaining, finished, outcome, failed,
                   exc, exitStatus, os, returncode, log, stops>>

\* ---- main, lines 132-138: time.sleep(3), then call start_group(CLIENT_NODES)
Warmup ==
    /\ pc = "warmup"
    /\ pc' = "start_node"
    /\ arg' = "clients"
    /\ i' = 1
    /\ procs' = <<>>
    /\ UNCHANGED <<config, interrupts, processes, bound, service_procs, client_procs,
                   remaining, finished, outcome, failed, exc, exitStatus, os,
                   returncode, log, stops>>

\* the result of poll() is tested for truth: exit code 0 counts as running
PollFalsy(n) == IF exitcode[n] = <<0>> THEN <<>> ELSE exitcode[n]

\* ---- Popen.poll(): the exit code the OS reports, None (<<>>) while running
Poll(n) == exitcode[n]

\* the loop tests the full client list instead of the pending ones
WhileClientProcs(rem) == client_procs # <<>>

\* ---- wait_for_clients, lines 88-91: remaining = dict(client_procs); while remaining
WhileRemaining(rem) == rem # <<>>

\* the loop body runs once before the condition is tested
WaitBeginSleepsFirst ==
    /\ pc = "wait_begin"
    /\ remaining' = client_procs
    /\ pc' = "wait_sleep"
    /\ UNCHANGED <<config, interrupts, arg, i, procs, processes, bound,
                   service_procs, client_procs, finished, outcome, failed,
                   exc, exitStatus, os, returncode, log, stops>>

WaitBegin ==
    /\ pc = "wait_begin"
    /\ IF WhileRemaining(client_procs)
       THEN /\ remaining' = client_procs
            /\ pc' = "wait_sleep"
            /\ UNCHANGED outcome
       ELSE /\ remaining' = <<>>
            /\ pc' = "finally"
            /\ outcome' = "ClientsFinished"
    /\ UNCHANGED <<config, interrupts, arg, i, procs, processes, bound, service_procs,
                   client_procs, finished, failed, exc, exitStatus, os,
                   returncode, log, stops>>

\* ---- wait_for_clients, line 92: time.sleep(1), then the service loop begins
WaitSleep ==
    /\ pc = "wait_sleep"
    /\ pc' = "poll_svc"
    /\ i' = 1
    /\ UNCHANGED <<config, interrupts, arg, procs, processes, bound, service_procs,
                   client_procs, remaining, finished, outcome, failed, exc,
                   exitStatus, os, returncode, log, stops>>

\* a service found exited is started again
PollServiceRestarts ==
    /\ pc = "poll_svc"
    /\ i <= Len(service_procs)
    /\ IF Poll(service_procs[i]) # <<>>
       THEN /\ child' = [child EXCEPT ![service_procs[i]] = "running"]
            /\ exitcode' = [exitcode EXCEPT ![service_procs[i]] = <<>>]
            /\ log' = Append(log, <<"spawn", service_procs[i]>>)
       ELSE UNCHANGED <<os, log>>
    /\ i' = i + 1
    /\ UNCHANGED <<config, interrupts, pc, arg, procs, processes, bound,
                   service_procs, client_procs, remaining, finished, outcome,
                   failed, exc, exitStatus, returncode, stops>>

\* the poll of a service logs the exit but the return is missing
PollServiceNoReturn ==
    /\ pc = "poll_svc"
    /\ i <= Len(service_procs)
    /\ returncode' = [returncode EXCEPT ![service_procs[i]] = Poll(service_procs[i])]
    /\ i' = i + 1
    /\ UNCHANGED <<config, interrupts, pc, arg, procs, processes, bound, service_procs,
                   client_procs, remaining, finished, outcome, failed, exc,
                   exitStatus, os, log, stops>>

\* ---- wait_for_clients, lines 95-99: poll one service; return if it exited
PollService ==
    /\ pc = "poll_svc"
    /\ i <= Len(service_procs)
    /\ LET n == service_procs[i] IN
        /\ returncode' = [returncode EXCEPT ![n] = Poll(n)]
        /\ IF Poll(n) # <<>>
           THEN /\ outcome' = "ServiceFailed"
                /\ failed' = <<n>>
                /\ pc' = "finally"
                /\ i' = 1
                /\ remaining' = <<>>
           ELSE /\ i' = i + 1
                /\ UNCHANGED <<pc, outcome, failed, remaining>>
    /\ UNCHANGED <<config, interrupts, arg, procs, processes, bound, service_procs,
                   client_procs, finished, exc, exitStatus, os, log,
                   stops>>

\* ---- wait_for_clients, lines 95 and 102: the service loop ends, finished = []
PollServicesDone ==
    /\ pc = "poll_svc"
    /\ i > Len(service_procs)
    /\ pc' = "poll_cli"
    /\ i' = 1
    /\ finished' = <<>>
    /\ UNCHANGED <<config, interrupts, arg, procs, processes, bound, service_procs,
                   client_procs, remaining, outcome, failed, exc, exitStatus,
                   os, returncode, log, stops>>

\* the client is waited for (proc.wait()) instead of polled
PollClientWaits ==
    /\ pc = "poll_cli"
    /\ i <= Len(remaining)
    /\ Poll(remaining[i]) # <<>>
    /\ returncode' = [returncode EXCEPT ![remaining[i]] = Poll(remaining[i])]
    /\ finished' = Append(finished, remaining[i])
    /\ i' = i + 1
    /\ UNCHANGED <<config, interrupts, pc, arg, procs, processes, bound,
                   service_procs, client_procs, remaining, outcome, failed,
                   exc, exitStatus, os, log, stops>>

\* ---- wait_for_clients, lines 103-107: poll one pending client
PollClient ==
    /\ pc = "poll_cli"
    /\ i <= Len(remaining)
    /\ LET n == remaining[i] IN
        /\ returncode' = [returncode EXCEPT ![n] = Poll(n)]
        /\ finished' = IF Poll(n) # <<>> THEN Append(finished, n) ELSE finished
    /\ i' = i + 1
    /\ UNCHANGED <<config, interrupts, pc, arg, procs, processes, bound, service_procs,
                   client_procs, remaining, outcome, failed, exc, exitStatus,
                   os, log, stops>>

\* remaining is the client list itself, not a copy: the pop shortens it
PopFinishedAliased ==
    /\ pc = "poll_cli"
    /\ i > Len(remaining)
    /\ remaining' = Without(remaining, Range(finished))
    /\ client_procs' = Without(remaining, Range(finished))
    /\ IF Without(remaining, Range(finished)) # <<>>
       THEN pc' = "wait_sleep" /\ UNCHANGED outcome
       ELSE pc' = "finally" /\ outcome' = "ClientsFinished"
    /\ i' = 1
    /\ finished' = <<>>
    /\ UNCHANGED <<config, interrupts, arg, procs, processes, bound,
                   service_procs, failed, exc, exitStatus, os, returncode,
                   log, stops>>

\* ---- wait_for_clients, lines 109-112 and 91: pop the finished clients, test
\* the while condition again, return when nothing remains
PopFinished ==
    /\ pc = "poll_cli"
    /\ i > Len(remaining)
    /\ LET rem == Without(remaining, Range(finished)) IN
        IF WhileRemaining(rem)
        THEN /\ remaining' = rem
             /\ pc' = "wait_sleep"
             /\ UNCHANGED outcome
        ELSE /\ remaining' = <<>>
             /\ pc' = "finally"
             /\ outcome' = "ClientsFinished"
    /\ i' = 1
    /\ finished' = <<>>
    /\ UNCHANGED <<config, interrupts, arg, procs, processes, bound, service_procs,
                   client_procs, failed, exc, exitStatus, os, returncode, log,
                   stops>>

\* the handler logs and raises the KeyboardInterrupt again
ExceptReraises ==
    /\ pc = "except"
    /\ pc' = "finally"
    /\ exc' = "KeyboardInterrupt"
    /\ UNCHANGED <<config, interrupts, arg, i, procs, processes, bound,
                   service_procs, client_procs, remaining, finished, outcome,
                   failed, exitStatus, os, returncode, log, stops>>

\* the interrupt is only noted and the monitoring is taken up again
ExceptResumesMonitoring ==
    /\ pc = "except"
    /\ pc' = "wait_begin"
    /\ UNCHANGED <<config, interrupts, arg, i, procs, processes, bound,
                   service_procs, client_procs, remaining, finished, outcome,
                   failed, exc, exitStatus, os, returncode, log, stops>>

\* ---- main, lines 144-145: except KeyboardInterrupt: log, fall into finally
ExceptKeyboardInterrupt ==
    /\ pc = "except"
    /\ pc' = "finally"
    /\ UNCHANGED <<config, interrupts, arg, i, procs, processes, bound, service_procs,
                   client_procs, remaining, finished, outcome, failed, exc,
                   exitStatus, os, returncode, log, stops>>

\* ---- main, lines 146-151: the finally block begins and calls
\* stop_processes(client_procs if 'client_procs' in locals() else [])
StopArgument(a) ==
    IF a = "clients"
    THEN IF "client_procs" \in bound THEN client_procs ELSE <<>>
    ELSE IF "service_procs" \in bound THEN service_procs ELSE <<>>

FinallyBegin ==
    /\ pc = "finally"
    /\ pc' = "terminate"
    /\ arg' = "clients"
    /\ processes' = StopArgument("clients")
    /\ i' = 1
    /\ stopCalls' = Append(stopCalls, "clients")
    /\ UNCHANGED <<config, interrupts, procs, bound, service_procs, client_procs,
                   remaining, finished, outcome, failed, exc, exitStatus, os,
                   returncode, log, firstError, stopDone>>

\* ---- Popen.terminate() / Popen.kill(): may raise when the child is gone
SignalResults(n) == IF child[n] = "running" THEN {"ok"} ELSE {"ok", "raises"}

\* the handler is missing: the error of a handle leaves stop_processes
ExceptNothing(r) == IF r = "raises" THEN "propagate" ELSE "continue"

\* ---- stop_processes, lines 74-75 and 82-83: except Exception swallows the
\* error of one handle and the loop goes on
ExceptException(r) == "continue"

\* the first call that raised is remembered (line 75 logs it)
FirstError(op, n, r) ==
    IF r = "raises" /\ firstError = <<>> THEN <<op, n>> ELSE firstError

\* one loop: each handle is terminated and killed at once, no grace wait
TerminateAndKill ==
    /\ pc = "terminate"
    /\ i <= Len(processes)
    /\ log' = log \o <<<<"terminate", processes[i]>>, <<"kill", processes[i]>>>>
    /\ IF child[processes[i]] = "running"
       THEN /\ child' = [child EXCEPT ![processes[i]] = "exited"]
            /\ exitcode' = [exitcode EXCEPT ![processes[i]] = <<KilledCode>>]
       ELSE UNCHANGED os
    /\ i' = i + 1
    /\ UNCHANGED <<config, interrupts, pc, arg, procs, processes, bound, service_procs,
                   client_procs, remaining, finished, outcome, failed, exc,
                   exitStatus, returncode, stops>>

\* ---- stop_processes, lines 71-75: proc.terminate() on one handle
Terminate ==
    /\ pc = "terminate"
    /\ i <= Len(processes)
    /\ \E r \in SignalResults(processes[i]) :
        /\ log' = Append(log, <<"terminate", processes[i]>>)
        /\ firstError' = FirstError("terminate", processes[i], r)
        /\ IF ExceptException(r) = "continue"
           THEN /\ i' = i + 1
                /\ UNCHANGED <<pc, exc, exitStatus>>
           ELSE /\ exc' = "Exception"
                /\ pc' = "stopped"
                /\ exitStatus' = <<1>>
                /\ UNCHANGED i
    /\ UNCHANGED <<config, interrupts, arg, procs, processes, bound, service_procs,
                   client_procs, remaining, finished, outcome, failed, os,
                   returncode, stopCalls, stopDone>>

\* ---- stop_processes, line 71: the terminate loop ends
TerminateDone ==
    /\ pc = "terminate"
    /\ i > Len(processes)
    /\ pc' = "grace"
    /\ UNCHANGED <<config, interrupts, arg, i, procs, processes, bound, service_procs,
                   client_procs, remaining, finished, outcome, failed, exc,
                   exitStatus, os, returncode, log, stops>>

\* ---- stop_processes, line 77: time.sleep(2), then the kill loop begins
Grace ==
    /\ pc = "grace"
    /\ pc' = "kill"
    /\ i' = 1
    /\ UNCHANGED <<config, interrupts, arg, procs, processes, bound, service_procs,
                   client_procs, remaining, finished, outcome, failed, exc,
                   exitStatus, os, returncode, log, stops>>

\* ---- stop_processes, lines 79-83: proc.kill() on one handle; SIGKILL ends
\* a running child
Kill ==
    /\ pc = "kill"
    /\ i <= Len(processes)
    /\ LET n == processes[i] IN
       \E r \in SignalResults(n) :
        /\ log' = Append(log, <<"kill", n>>)
        /\ firstError' = FirstError("kill", n, r)
        /\ IF child[n] = "running"
           THEN /\ child' = [child EXCEPT ![n] = "exited"]
                /\ exitcode' = [exitcode EXCEPT ![n] = <<KilledCode>>]
           ELSE UNCHANGED os
        /\ IF ExceptException(r) = "continue"
           THEN /\ i' = i + 1
                /\ UNCHANGED <<pc, exc, exitStatus>>
           ELSE /\ exc' = "Exception"
                /\ pc' = "stopped"
                /\ exitStatus' = <<1>>
                /\ UNCHANGED i
    /\ UNCHANGED <<config, interrupts, arg, procs, processes, bound, service_procs,
                   client_procs, remaining, finished, outcome, failed,
                   returncode, stopCalls, stopDone>>

\* ---- stop_processes returns; after the client list, main line 152 calls
\* stop_processes(service_procs if 'service_procs' in locals() else [])
StopReturn ==
    /\ pc = "kill"
    /\ i > Len(processes)
    /\ stopDone' = Append(stopDone, arg)
    /\ i' = 1
    /\ IF arg = "clients"
       THEN /\ arg' = "services"
            /\ processes' = StopArgument("services")
            /\ stopCalls' = Append(stopCalls, "services")
            /\ pc' = "terminate"
       ELSE /\ arg' = "none"
            /\ processes' = <<>>
            /\ pc' = "done"
            /\ UNCHANGED stopCalls
    /\ UNCHANGED <<config, interrupts, procs, bound, service_procs, client_procs,
                   remaining, finished, outcome, failed, exc, exitStatus, os,
                   returncode, log, firstError>>

\* ---- main, line 153 and the end of finally: an exception that was
\* travelling is raised again and ends the interpreter with a traceback
Done ==
    /\ pc = "done"
    /\ pc' = "stopped"
    /\ exitStatus' = IF exc = "none" THEN <<0>> ELSE <<1>>
    /\ UNCHANGED <<config, interrupts, arg, i, procs, processes, bound, service_procs,
                   client_procs, remaining, finished, outcome, failed, exc,
                   os, returncode, log, stops>>

\* ---- signal_handler, lines 115-117: SIGINT raises KeyboardInterrupt where
\* main is.  Inside the try block the except clause of line 144 takes it;
\* inside the except clause or the finally block nothing takes it; line 122
\* is before the try block.
Interrupt ==
    /\ pc \in TryPcs \cup FinallyPcs \cup {"init", "except"}
    /\ IF pc \in TryPcs
       THEN /\ pc' = "except"
            /\ UNCHANGED <<exc, exitStatus>>
       ELSE IF pc = "except"
       THEN /\ pc' = "finally"
            /\ exc' = "KeyboardInterrupt"
            /\ UNCHANGED exitStatus
       ELSE /\ pc' = "stopped"
            /\ exc' = "KeyboardInterrupt"
            /\ exitStatus' = <<1>>
    /\ interrupts' = Append(interrupts, Phase)
    /\ arg' = "none"
    /\ i' = 1
    /\ procs' = <<>>
    /\ processes' = <<>>
    /\ remaining' = <<>>
    /\ finished' = <<>>
    /\ UNCHANGED <<config, bound, service_procs, client_procs, outcome,
                   failed, os, returncode, log, stops>>

\* ---- environment: while the orchestrator runs, a running child ends by
\* itself, or with -15 once SIGTERM was sent to it
Terminated(n) == \E k \in 1..Len(log) : log[k] = <<"terminate", n>>

ChildExit ==
    \E n \in Names :
        /\ pc # "stopped"
        /\ child[n] = "running"
        /\ \E c \in (IF Terminated(n) THEN {TermCode} ELSE ExitCodes) :
            /\ child' = [child EXCEPT ![n] = "exited"]
            /\ exitcode' = [exitcode EXCEPT ![n] = <<c>>]
        /\ UNCHANGED <<config, interrupts, pc, arg, i, procs, processes, bound,
                       service_procs, client_procs, remaining, finished,
                       outcome, failed, exc, exitStatus, returncode, log,
                       stops>>

Next ==
    \/ RegisterHandler
    \/ StartNode
    \/ StartNodeFails
    \/ StartSleep
    \/ StartGroupReturn
    \/ Warmup
    \/ WaitBegin
    \/ WaitSleep
    \/ PollService
    \/ PollServicesDone
    \/ PollClient
    \/ PopFinished
    \/ ExceptKeyboardInterrupt
    \/ FinallyBegin
    \/ Terminate
    \/ TerminateDone
    \/ Grace
    \/ Kill
    \/ StopReturn
    \/ Done
    \/ Interrupt
    \/ ChildExit

Spec == Init /\ [][Next]_vars

\* ---- the steps of the orchestrator itself: it is a running sequential
\* program, its sleeps end and its calls return, so it keeps taking steps
\* until it has stopped; the children and SIGINT are under no obligation
Orchestrator ==
    \/ RegisterHandler
    \/ StartNode
    \/ StartNodeFails
    \/ StartSleep
    \/ StartGroupReturn
    \/ Warmup
    \/ WaitBegin
    \/ WaitSleep
    \/ PollService
    \/ PollServicesDone
    \/ PollClient
    \/ PopFinished
    \/ ExceptKeyboardInterrupt
    \/ FinallyBegin
    \/ Terminate
    \/ TerminateDone
    \/ Grace
    \/ Kill
    \/ StopReturn
    \/ Done

LiveSpec == Init /\ [][Next]_vars /\ WF_vars(Orchestrator)

\* ======================= properties =======================

Spawned(n) == \E k \in 1..Len(log) : log[k] = <<"spawn", n>>
Requests(op, n) == {k \in 1..Len(log) : log[k][1] = op /\ log[k][2] = n}
TerminatedThenKilled(n) ==
    \E j \in Requests("terminate", n) : \E k \in Requests("kill", n) : j < k

\* names, in log order, of the handles of list l that got request op
RECURSIVE RequestedOf(_, _, _)
RequestedOf(op, l, lg) ==
    IF lg = <<>> THEN <<>>
    ELSE IF Head(lg)[1] = op /\ Head(lg)[2] \in Range(l)
         THEN <<Head(lg)[2]>> \o RequestedOf(op, l, Tail(lg))
         ELSE RequestedOf(op, l, Tail(lg))

\* C1: when the orchestrator has stopped on a run that ended by clients
\* finished, a failed service, a spawn failure or an interrupt during startup
\* or monitoring (no interrupt outside the try block), every process whose
\* spawn succeeded has got a terminate request and after it a kill request.
C1_EverySpawnedStopped ==
    (pc = "stopped" /\ exc # "KeyboardInterrupt")
        => \A n \in Names : Spawned(n) => TerminatedThenKilled(n)

\* C2: the phases advance only in the order INIT, STARTING_SERVICES, WARMUP,
\* STARTING_CLIENTS, MONITORING, SHUTTING_DOWN, STOPPED: every step stays in
\* its phase, moves to the next one, or jumps forward to SHUTTING_DOWN; so
\* STOPPED is entered from SHUTTING_DOWN only.
C2_PhaseOrder ==
    [][Phase' >= Phase /\ (Phase' <= Phase + 1 \/ Phase' = 5)]_vars

\* C3: once the finally block of main has begun it is left only when both
\* the terminate phase and the kill phase have been completed for the client
\* list and then for the service list, whatever interrupt arrives.
C3_ShutdownNotCancellable ==
    [][(pc \in FinallyPcs) =>
          (pc' \in FinallyPcs
           \/ (pc' = "stopped" /\ stopDone' = <<"clients", "services">>))]_vars

\* the step taken is the poll of service_procs[i] by wait_for_clients
PollServiceStep ==
    /\ pc = "poll_svc"
    /\ i <= Len(service_procs)
    /\ pc' # "except"
    /\ ~(pc' = pc /\ i' = i)

\* the step taken ends a pass over the pending clients in wait_for_clients
PopFinishedStep ==
    /\ pc = "poll_cli"
    /\ i > Len(remaining)
    /\ pc' # "except"
    /\ pc' # pc

\* C4: a poll that finds a service exited while clients are pending makes
\* wait_for_clients return with the service-failed outcome at once, and a run
\* that ended that way has invoked stop_processes on the client list and on
\* the service list by the time the orchestrator stops.
C4_ServiceFailureStopsRun ==
    /\ [][(PollServiceStep /\ exitcode[service_procs[i]] # <<>>)
            => (outcome' = "ServiceFailed" /\ pc' = "finally")]_vars
    /\ []((pc = "stopped" /\ outcome = "ServiceFailed")
            => stopCalls = <<"clients", "services">>)

\* C5: a pass of wait_for_clients that ends with every client handle's exit
\* code non-null returns with the clients-finished outcome, whether or not
\* a service has exited.
C5_ClientsFinished ==
    [][(PopFinishedStep
          /\ \A n \in Range(client_procs) : returncode[n] # <<>>)
        => (outcome' = "ClientsFinished" /\ pc' = "finally")]_vars

C5_Witness ==
    /\ outcome = "ClientsFinished"
    /\ client_procs # <<>>
    /\ service_procs # <<>>
    /\ \A n \in Range(service_procs) : child[n] = "running"

\* C6: a poll of wait_for_clients that observes a service exited returns the
\* service-failed outcome for that service, the first one in list order
\* observed exited, whatever the clients' state; and the clients-finished
\* outcome is never returned once a service was observed exited.
C6_ServiceFailureFirst ==
    /\ [][(PollServiceStep /\ returncode'[service_procs[i]] # <<>>)
            => /\ outcome' = "ServiceFailed"
               /\ failed' = <<service_procs[i]>>
               /\ pc' = "finally"
               /\ \A j \in 1..(i - 1) : returncode'[service_procs[j]] = <<>>]_vars
    /\ [](outcome = "ClientsFinished"
            => \A n \in Range(service_procs) : returncode[n] = <<>>)

C6_Witness ==
    /\ outcome = "ServiceFailed"
    /\ Len(client_procs) = MaxClients
    /\ \A n \in Range(client_procs) : child[n] = "exited"
    /\ Len(service_procs) > 1
    /\ failed = <<service_procs[Len(service_procs)]>>
    /\ stopCalls = <<>>

SpawnCalls(n) == Requests("spawn", n) \cup Requests("spawn_failed", n)

\* C7: whenever a spawn call for a client has been issued, the start of the
\* service group has returned with a handle for every node of NODES, every
\* service spawn call succeeded, and all of them precede the client's call.
C7_ServicesBeforeClients ==
    \A c \in ClientNames : \A k \in SpawnCalls(c) :
        /\ "service_procs" \in bound
        /\ service_procs = NODES
        /\ \A n \in Range(NODES) :
            /\ Spawned(n)
            /\ \A j \in SpawnCalls(n) : j < k /\ log[j][1] = "spawn"

C7_Witness ==
    /\ Len(NODES) = MaxServices
    /\ \E c \in ClientNames : Spawned(c)

\* C8: no terminate or kill request goes to a handle of the service list
\* before stop_processes has returned for the client list, and by the time
\* the orchestrator stops stop_processes has been invoked exactly twice, for
\* the client list and then for the service list.
C8_ClientsThenServicesTwice ==
    /\ (RequestedOf("terminate", service_procs, log) # <<>>
          \/ RequestedOf("kill", service_procs, log) # <<>>)
        => (stopDone # <<>> /\ stopDone[1] = "clients")
    /\ pc = "stopped" => stopCalls = <<"clients", "services">>

\* C9: in a stop_processes call the terminate requests go to the handles in
\* list order and no handle of the list gets a kill request until every
\* handle of the list got its terminate request and the grace wait is over;
\* the kill requests then go to the handles in list order, and when the call
\* returns every handle of the list has got both.
C9_TerminateAllThenKillAll ==
    /\ pc = "terminate" =>
        /\ RequestedOf("terminate", processes, log) = SubSeq(processes, 1, i - 1)
        /\ RequestedOf("kill", processes, log) = <<>>
    /\ pc = "grace" =>
        /\ RequestedOf("terminate", processes, log) = processes
        /\ RequestedOf("kill", processes, log) = <<>>
    /\ pc = "kill" =>
        /\ RequestedOf("terminate", processes, log) = processes
        /\ RequestedOf("kill", processes, log) = SubSeq(processes, 1, i - 1)
    /\ \A k \in 1..Len(stopDone) :
        /\ RequestedOf("terminate", StopArgument(stopDone[k]), log)
             = StopArgument(stopDone[k])
        /\ RequestedOf("kill", StopArgument(stopDone[k]), log)
             = StopArgument(stopDone[k])
        /\ \A n \in Range(StopArgument(stopDone[k])) : TerminatedThenKilled(n)

C9_Witness ==
    /\ stopDone = <<"clients", "services">>
    /\ Len(client_procs) > 1
    /\ Len(service_procs) > 1

\* C10: an error raised by terminate or kill for a handle that is gone never
\* leaves stop_processes: the loop goes on with the next handle, no exception
\* comes out of the call, and a call that returned (also on an empty list)
\* has issued the terminate and the kill request to every handle of its list.
C10_StopNeverFails ==
    /\ [][(Len(log') > Len(log) /\ log'[Len(log')][1] \in {"terminate", "kill"})
            => (pc' = pc /\ i' = i + 1 /\ exc' = exc /\ exitStatus' = exitStatus)]_vars
    /\ [](exc # "Exception")
    /\ [](\A k \in 1..Len(stopDone) :
            \A n \in Range(StopArgument(stopDone[k])) :
                Requests("terminate", n) # {} /\ Requests("kill", n) # {})

C10_Witness ==
    /\ stopDone = <<"clients", "services">>
    /\ StopArgument("clients") = <<>>
    /\ Len(service_procs) > 1
    /\ firstError = <<"terminate", service_procs[1]>>

\* positions from which the run only shuts down
ShutdownPcs == FinallyPcs \cup {"except", "stopped"}

IsSpawnCall(e) == e[1] \in {"spawn", "spawn_failed"}

\* C11: a SIGINT that arrives during startup or monitoring (the inter-start
\* delay, the warm-up delay, any point of a poll iteration) takes the run
\* straight to the except clause of main; from the first interrupt on the
\* run stays in shutdown, issues no spawn call and polls no handle.
C11_InterruptStopsWork ==
    /\ [][(interrupts' # interrupts /\ pc \in TryPcs)
            => (pc' = "except" /\ log' = log /\ returncode' = returncode)]_vars
    /\ [][(interrupts # <<>>)
            => /\ pc' \in ShutdownPcs
               /\ SelectSeq(log', IsSpawnCall) = SelectSeq(log, IsSpawnCall)
               /\ returncode' = returncode]_vars

C11_Witness ==
    /\ pc = "stopped"
    /\ interrupts = <<3>>
    /\ Len(NODES) = MaxServices
    /\ Len(CLIENT_NODES) = MaxClients
    /\ Spawned(CLIENT_NODES[1])
    /\ \E n \in Range(CLIENT_NODES) : ~Spawned(n)

\* C12: after a failed spawn call no further spawn call is issued (none for a
\* later node of the group, none again for the failed node), the exception
\* is on its way out of main through the finally block and the exit status
\* is non-zero; when the failed node is a service, no client was or is
\* spawned and monitoring is never entered.
C12_SpawnFailureAborts ==
    \A k \in 1..Len(log) : (log[k][1] = "spawn_failed") =>
        /\ \A j \in (k + 1)..Len(log) : ~IsSpawnCall(log[j])
        /\ SpawnCalls(log[k][2]) = {k}
        /\ pc \in FinallyPcs \cup {"stopped"}
        /\ exc # "none"
        /\ pc = "stopped" => exitStatus = <<1>>
        /\ (log[k][2] \in ServiceNames) =>
            /\ \A c \in ClientNames : SpawnCalls(c) = {}
            /\ "client_procs" \notin bound
            /\ outcome = "none"
            /\ \A n \in Names : returncode[n] = <<>>

C12_Witness ==
    /\ pc = "stopped"
    /\ Len(NODES) = MaxServices
    /\ CLIENT_NODES # <<>>
    /\ Spawned(NODES[1])
    /\ Requests("spawn_failed", NODES[MaxServices]) # {}
    /\ stopDone = <<"clients", "services">>

\* s is the beginning of t
IsPrefix(s, t) == Len(s) <= Len(t) /\ s = SubSeq(t, 1, Len(s))

\* C13: start_group spawns the nodes of its group one at a time in group
\* order, its list of handles is at every point the beginning of the group,
\* and the list it returns has exactly the group's length with the i-th
\* handle being that of the i-th node.
C13_StartGroupInOrder ==
    /\ pc = "start_node" => (Len(procs) = i - 1 /\ IsPrefix(procs, Group(arg)))
    /\ pc = "start_sleep" => (Len(procs) = i /\ IsPrefix(procs, Group(arg)))
    /\ "service_procs" \in bound => service_procs = NODES
    /\ "client_procs" \in bound => client_procs = CLIENT_NODES
    /\ IsPrefix(RequestedOf("spawn", NODES, log), NODES)
    /\ IsPrefix(RequestedOf("spawn", CLIENT_NODES, log), CLIENT_NODES)

C13_Witness ==
    /\ bound = {"service_procs", "client_procs"}
    /\ Len(service_procs) = MaxServices
    /\ Len(client_procs) = MaxClients

\* no exception leaves main: no spawn call failed and every SIGINT arrived
\* inside the try block (startup, warm-up or monitoring)
NoEscapingException ==
    /\ \A k \in 1..Len(log) : log[k][1] # "spawn_failed"
    /\ \A k \in 1..Len(interrupts) : interrupts[k] \in 1..4

\* C14: the exit status of the orchestrator is 0 exactly on the runs that
\* end through the finally block with no exception leaving main (clients
\* finished, a service failed, or a SIGINT during startup or monitoring) and
\* non-zero exactly when an exception leaves main.
C14_ExitStatus ==
    pc = "stopped" =>
        /\ exitStatus \in {<<0>>, <<1>>}
        /\ exitStatus = <<0>> <=> NoEscapingException
        /\ exitStatus = <<1>> <=> exc # "none"

C14_Witness ==
    /\ pc = "stopped"
    /\ exitStatus = <<0>>
    /\ interrupts = <<4>>
    /\ stopDone = <<"clients", "services">>

\* C15: every node has at most one spawn call in a run, a process that has
\* exited never runs again, and no spawn call is issued once monitoring or
\* shutdown has begun.
C15_NoRetryNoRestart ==
    /\ [](\A n \in Names : Cardinality(SpawnCalls(n)) <= 1)
    /\ [][\A n \in Names : child[n] = "exited" => child'[n] = "exited"]_vars
    /\ [][(Phase >= 4)
            => SelectSeq(log', IsSpawnCall) = SelectSeq(log, IsSpawnCall)]_vars

C15_Witness ==
    /\ pc = "stopped"
    /\ outcome = "ServiceFailed"
    /\ \E c \in Range(client_procs) : returncode[c] # <<>>
    /\ stopDone = <<"clients", "services">>

\* C16: when the orchestrator has stopped on a run whose monitor returned
\* (clients finished or service failed), every handle of the client list and
\* of the service list has got the terminate and then the kill request and
\* its process has exited.
C16_AllHandlesStopped ==
    (pc = "stopped" /\ outcome \in {"ClientsFinished", "ServiceFailed"})
        => \A n \in Range(client_procs) \cup Range(service_procs) :
              TerminatedThenKilled(n) /\ child[n] = "exited"

\* C17: from the start of monitoring on, service_procs and client_procs (and
\* which of them exist) never change, and every stop_processes call works
\* on the list main holds, which is the list start_group returned.
C17_ListsWrittenOnce ==
    /\ [][(Phase >= 4) => /\ service_procs' = service_procs
                          /\ client_procs' = client_procs
                          /\ bound' = bound]_vars
    /\ [](pc \in {"terminate", "grace", "kill"}
            => processes = StopArgument(arg))
    /\ []("client_procs" \in bound => client_procs = CLIENT_NODES)
    /\ []("service_procs" \in bound => service_procs = NODES)

C17_Witness ==
    /\ stopDone = <<"clients", "services">>
    /\ outcome = "ClientsFinished"
    /\ Len(client_procs) = MaxClients
    /\ Len(service_procs) = MaxServices

AllClientsExited == \A n \in Range(CLIENT_NODES) : child[n] = "exited"
SomeServiceExited == \E n \in Range(NODES) : child[n] = "exited"

\* C18: if no SIGINT arrives and every client process exits at some time or
\* some service process exits at some time, the orchestrator reaches
\* STOPPED; and once the finally block has begun the orchestrator reaches
\* STOPPED whatever the children do.
C18_NeverBlocksOnAChild ==
    /\ ([](interrupts = <<>>) /\ (<>AllClientsExited \/ <>SomeServiceExited))
        => <>(pc = "stopped")
    /\ (pc \in FinallyPcs) ~> (pc = "stopped")

C18_Witness ==
    /\ pc = "stopped"
    /\ interrupts = <<>>
    /\ outcome = "ServiceFailed"
    /\ Len(client_procs) = MaxClients
    /\ \A c \in Range(client_procs) : exitcode[c] = <<KilledCode>>

\* the step taken is the poll of the pending client remaining[i]
PollClientStep ==
    /\ pc = "poll_cli"
    /\ i <= Len(remaining)
    /\ pc' = pc
    /\ i' = i + 1

\* C19: a handle's returncode is set only by a poll of wait_for_clients, the
\* poll stores what the OS reports (None while the process runs), a
\* non-null returncode is the exit code of an exited process, and once
\* non-null it never changes and is never None again.
C19_ReturncodeStable ==
    /\ [][\A n \in Names :
            returncode[n] # <<>> => returncode'[n] = returncode[n]]_vars
    /\ [](\A n \in Names : returncode[n] # <<>>
            => (child[n] = "exited" /\ returncode[n] = exitcode[n]))
    /\ [][PollServiceStep
            => returncode'[service_procs[i]] = exitcode[service_procs[i]]]_vars
    /\ [][PollClientStep
            => returncode'[remaining[i]] = exitcode[remaining[i]]]_vars
    /\ [][(returncode' # returncode) => pc \in {"poll_svc", "poll_cli"}]_vars

C19_Witness ==
    /\ pc = "stopped"
    /\ \E c \in Range(client_procs) :
        /\ returncode[c] = <<0>>
        /\ Requests("kill", c) # {}
    /\ \E c \in Range(client_procs) : returncode[c] = <<>>

\* C20: with an empty client list wait_for_clients returns the
\* clients-finished outcome at once: it goes from its entry to the finally
\* block without sleeping and without polling, so no service failure is
\* ever reported, also when a service has exited.
C20_EmptyClientList ==
    /\ [][(pc = "wait_begin" /\ client_procs = <<>>
             /\ pc' \notin {"wait_begin", "except"})
            => /\ outcome' = "ClientsFinished"
               /\ pc' = "finally"
               /\ returncode' = returncode]_vars
    /\ []((CLIENT_NODES = <<>>)
            => /\ outcome # "ServiceFailed"
               /\ pc \notin {"wait_sleep", "poll_svc", "poll_cli"}
               /\ \A n \in Names : returncode[n] = <<>>)

C20_Witness ==
    /\ outcome = "ClientsFinished"
    /\ CLIENT_NODES = <<>>
    /\ pc = "stopped"
    /\ exitStatus = <<0>>
    /\ interrupts = <<>>
    /\ Len(service_procs) = MaxServices
    /\ exitcode[service_procs[1]] = <<0>>

====
